---- MODULE Spec2Model ----
(***************************************************************************)
(* Model of ApigwHttpApiLambdaDynamodbPythonCdkStack.__init__              *)
(* (stacks/apigw_http_api_lambda_dynamodb_python_cdk_stack.py).            *)
(*                                                                         *)
(* The constructor is a straight-line sequence of construct declarations   *)
(* and permission grants.  Each statement of the constructor is one        *)
(* action; the resource graph a run has built so far is the record g[r].   *)
(* Two runs of the constructor (a synthesis and a re-synthesis) are fed    *)
(* the same inputs and stepped side by side.  Once a run is complete, the  *)
(* DynamoDB gateway endpoint it declared evaluates requests against the    *)
(* endpoint policy.                                                        *)
(*                                                                         *)
(* IAM action names and patterns are sequences of characters so that the   *)
(* wildcard match is computed character by character.                      *)
(***************************************************************************)
EXTENDS Integers, Sequences, FiniteSets, TLC

VARIABLES pc, g, inputs, lastReq

vars == <<pc, g, inputs, lastReq>>

\* Largest number of availability zones the environment (kwargs env) offers.
MaxAzs == 3

\* The synthesis and the re-synthesis of the same app.
Runs == {1, 2}

\* construct_id values the stack is instantiated with.
ConstructIds == {"ApigwStackA", "ApigwStackB"}

TABLE_NAME == "demo_table"

(***************************************************************************)
(* IAM action names and action patterns, character by character.           *)
(***************************************************************************)
dynamodb_DescribeStream == <<"d", "y", "n", "a", "m", "o", "d", "b", ":", "D", "e", "s", "c", "r", "i", "b", "e", "S", "t", "r", "e", "a", "m">>
dynamodb_DescribeTable == <<"d", "y", "n", "a", "m", "o", "d", "b", ":", "D", "e", "s", "c", "r", "i", "b", "e", "T", "a", "b", "l", "e">>
dynamodb_GetStar == <<"d", "y", "n", "a", "m", "o", "d", "b", ":", "G", "e", "t", "*">>
dynamodb_Query == <<"d", "y", "n", "a", "m", "o", "d", "b", ":", "Q", "u", "e", "r", "y">>
dynamodb_Scan == <<"d", "y", "n", "a", "m", "o", "d", "b", ":", "S", "c", "a", "n">>
dynamodb_CreateTable == <<"d", "y", "n", "a", "m", "o", "d", "b", ":", "C", "r", "e", "a", "t", "e", "T", "a", "b", "l", "e">>
dynamodb_DeleteStar == <<"d", "y", "n", "a", "m", "o", "d", "b", ":", "D", "e", "l", "e", "t", "e", "*">>
dynamodb_UpdateStar == <<"d", "y", "n", "a", "m", "o", "d", "b", ":", "U", "p", "d", "a", "t", "e", "*">>
dynamodb_PutItem == <<"d", "y", "n", "a", "m", "o", "d", "b", ":", "P", "u", "t", "I", "t", "e", "m">>
dynamodb_BatchWriteItem == <<"d", "y", "n", "a", "m", "o", "d", "b", ":", "B", "a", "t", "c", "h", "W", "r", "i", "t", "e", "I", "t", "e", "m">>
dynamodb_UpdateItem == <<"d", "y", "n", "a", "m", "o", "d", "b", ":", "U", "p", "d", "a", "t", "e", "I", "t", "e", "m">>
dynamodb_DeleteItem == <<"d", "y", "n", "a", "m", "o", "d", "b", ":", "D", "e", "l", "e", "t", "e", "I", "t", "e", "m">>
dynamodb_GetItem == <<"d", "y", "n", "a", "m", "o", "d", "b", ":", "G", "e", "t", "I", "t", "e", "m">>
dynamodb_BatchGetItem == <<"d", "y", "n", "a", "m", "o", "d", "b", ":", "B", "a", "t", "c", "h", "G", "e", "t", "I", "t", "e", "m">>
dynamodb_GetRecords == <<"d", "y", "n", "a", "m", "o", "d", "b", ":", "G", "e", "t", "R", "e", "c", "o", "r", "d", "s">>
dynamodb_GetShardIterator == <<"d", "y", "n", "a", "m", "o", "d", "b", ":", "G", "e", "t", "S", "h", "a", "r", "d", "I", "t", "e", "r", "a", "t", "o", "r">>
dynamodb_ConditionCheckItem == <<"d", "y", "n", "a", "m", "o", "d", "b", ":", "C", "o", "n", "d", "i", "t", "i", "o", "n", "C", "h", "e", "c", "k", "I", "t", "e", "m">>
dynamodb_DeleteTable == <<"d", "y", "n", "a", "m", "o", "d", "b", ":", "D", "e", "l", "e", "t", "e", "T", "a", "b", "l", "e">>
dynamodb_UpdateTable == <<"d", "y", "n", "a", "m", "o", "d", "b", ":", "U", "p", "d", "a", "t", "e", "T", "a", "b", "l", "e">>
dynamodb_ListTables == <<"d", "y", "n", "a", "m", "o", "d", "b", ":", "L", "i", "s", "t", "T", "a", "b", "l", "e", "s">>
dynamodb_ListStreams == <<"d", "y", "n", "a", "m", "o", "d", "b", ":", "L", "i", "s", "t", "S", "t", "r", "e", "a", "m", "s">>
dynamodb_TagResource == <<"d", "y", "n", "a", "m", "o", "d", "b", ":", "T", "a", "g", "R", "e", "s", "o", "u", "r", "c", "e">>
dynamodb_RestoreTableFromBackup == <<"d", "y", "n", "a", "m", "o", "d", "b", ":", "R", "e", "s", "t", "o", "r", "e", "T", "a", "b", "l", "e", "F", "r", "o", "m", "B", "a", "c", "k", "u", "p">>
dynamodb_ExportTableToPointInTime == <<"d", "y", "n", "a", "m", "o", "d", "b", ":", "E", "x", "p", "o", "r", "t", "T", "a", "b", "l", "e", "T", "o", "P", "o", "i", "n", "t", "I", "n", "T", "i", "m", "e">>
dynamodb_PartiQLSelect == <<"d", "y", "n", "a", "m", "o", "d", "b", ":", "P", "a", "r", "t", "i", "Q", "L", "S", "e", "l", "e", "c", "t">>
dynamodb_Star == <<"d", "y", "n", "a", "m", "o", "d", "b", ":", "*">>
s3_GetObject == <<"s", "3", ":", "G", "e", "t", "O", "b", "j", "e", "c", "t">>
s3_PutObject == <<"s", "3", ":", "P", "u", "t", "O", "b", "j", "e", "c", "t">>
xray_PutTraceSegments == <<"x", "r", "a", "y", ":", "P", "u", "t", "T", "r", "a", "c", "e", "S", "e", "g", "m", "e", "n", "t", "s">>
xray_PutTelemetryRecords == <<"x", "r", "a", "y", ":", "P", "u", "t", "T", "e", "l", "e", "m", "e", "t", "r", "y", "R", "e", "c", "o", "r", "d", "s">>
lambda_InvokeFunction == <<"l", "a", "m", "b", "d", "a", ":", "I", "n", "v", "o", "k", "e", "F", "u", "n", "c", "t", "i", "o", "n">>
logs_PutLogEvents == <<"l", "o", "g", "s", ":", "P", "u", "t", "L", "o", "g", "E", "v", "e", "n", "t", "s">>

(***************************************************************************)
(* Policy evaluation.                                                      *)
(***************************************************************************)
RECURSIVE Glob(_, _)
\* IAM wildcard match of string s against pattern p: "*" stands for any run
\* of characters, "?" for any single character.
Glob(p, s) ==
    IF p = <<>> THEN s = <<>>
    ELSE IF Head(p) = "*"
         THEN Glob(Tail(p), s) \/ (s # <<>> /\ Glob(p, Tail(s)))
         ELSE /\ s # <<>>
              /\ (Head(p) = "?" \/ Head(p) = Head(s))
              /\ Glob(Tail(p), Tail(s))

\* iam.AnyPrincipal(): the principal "*".
AnyPrincipal == "*"

PrincipalMatches(pat, principal) == pat = AnyPrincipal \/ pat = principal

ResourceMatches(pat, resource) == pat = "*" \/ pat = resource

\* Does one policy statement allow the request?
StatementAllows(stmt, principal, action, resource) ==
    /\ stmt.effect = "Allow"
    /\ \E pp \in stmt.principals : PrincipalMatches(pp, principal)
    /\ \E ap \in stmt.actions : Glob(ap, action)
    /\ \E rp \in stmt.resources : ResourceMatches(rp, resource)

\* Decision of a policy document (a sequence of statements) on a request.
PolicyAllows(policy, principal, action, resource) ==
    \E i \in 1..Len(policy) : StatementAllows(policy[i], principal, action, resource)

\* The action list with the whole service opened up.
EndpointPolicyActionsWide ==
    { dynamodb_DescribeStream, dynamodb_DescribeTable, dynamodb_GetStar,
      dynamodb_Query, dynamodb_Scan, dynamodb_CreateTable,
      dynamodb_DeleteStar, dynamodb_UpdateStar, dynamodb_PutItem,
      dynamodb_Star }

\* The action list of the statement added to the DynamoDB endpoint policy.
EndpointPolicyActions ==
    { dynamodb_DescribeStream, dynamodb_DescribeTable, dynamodb_GetStar,
      dynamodb_Query, dynamodb_Scan, dynamodb_CreateTable,
      dynamodb_DeleteStar, dynamodb_UpdateStar, dynamodb_PutItem }

\* iam.PolicyStatement(principals=[AnyPrincipal()], actions=[...], resources=["*"])
EndpointPolicyStatement ==
    [ effect     |-> "Allow",
      principals |-> {AnyPrincipal},
      actions    |-> EndpointPolicyActions,
      resources  |-> {"*"} ]

\* Table.grant_write_data: the write data actions plus DescribeTable.
WriteDataActions ==
    { dynamodb_BatchWriteItem, dynamodb_PutItem, dynamodb_UpdateItem,
      dynamodb_DeleteItem, dynamodb_DescribeTable }

\* The read data actions that grant_read_data / grant_read_write_data add.
ReadDataActions ==
    { dynamodb_BatchGetItem, dynamodb_GetRecords, dynamodb_GetShardIterator,
      dynamodb_Query, dynamodb_GetItem, dynamodb_Scan,
      dynamodb_ConditionCheckItem }

(***************************************************************************)
(* The resource graph and the constructs that extend it.                   *)
(***************************************************************************)
EmptyGraph ==
    [ stack             |-> "",
      declared          |-> <<>>,   \* declarations, in order: [id, type, refs]
      subnets           |-> {},     \* [name, subnet_type, az]
      gateways          |-> {},     \* internet / NAT gateways of the network
      routes            |-> {},     \* [subnet, target_type, target]
      endpoint_policy   |-> <<>>,   \* statements of the DynamoDB endpoint policy
      grants            |-> {},     \* [grantee, resource, actions]
      environment       |-> {},     \* <<key, value>> entries of the function
      interface_enis    |-> {},     \* [endpoint, subnet] network interfaces
      fn_subnet_type    |-> "",     \* vpc_subnets selection of the function
      fn_subnets        |-> {},     \* subnets the function can be placed in
      api_handler       |-> "",     \* integration target of the REST gateway
      canary_url        |-> "",     \* gateway whose URL the canary script embeds
      access_log_format |-> {},     \* fields of the stage's access log
      alarms            |-> {} ]    \* [id, metric, threshold, evaluation_periods]

DeclaredIds(gr) == { gr.declared[i].id : i \in 1..Len(gr.declared) }

\* Adding a construct (or a grant / policy / environment mutation) to the scope.
Declare(gr, id, type, refs) ==
    [gr EXCEPT !.declared = Append(@, [id |-> id, type |-> type, refs |-> refs])]

\* A subnet configuration that also asks for a public subnet group.
VpcSubnetConfigurationWithPublic ==
    { [name |-> "Private-Subnet", subnet_type |-> "PRIVATE_ISOLATED", cidr_mask |-> 24],
      [name |-> "Public-Subnet", subnet_type |-> "PUBLIC", cidr_mask |-> 24] }

\* subnet_configuration of the Vpc.
VpcSubnetConfiguration ==
    { [name |-> "Private-Subnet", subnet_type |-> "PRIVATE_ISOLATED", cidr_mask |-> 24] }

\* ec2.Vpc: one subnet per configuration entry and availability zone; an
\* internet gateway and default routes only for PUBLIC subnets; NAT gateways
\* and default routes only for PRIVATE_WITH_EGRESS subnets.
ec2_Vpc(gr, id, subnet_configuration, azs) ==
    LET subs == { [name |-> c.name, subnet_type |-> c.subnet_type, az |-> z] :
                    c \in subnet_configuration, z \in 1..azs }
        pub  == { s \in subs : s.subnet_type = "PUBLIC" }
        egr  == { s \in subs : s.subnet_type = "PRIVATE_WITH_EGRESS" }
        gws  == (IF pub # {} THEN {"InternetGateway"} ELSE {})
                \cup (IF egr # {} THEN {"NatGateway"} ELSE {})
        rts  == { [subnet |-> s, target_type |-> "InternetGateway", target |-> id] : s \in pub }
                \cup { [subnet |-> s, target_type |-> "NatGateway", target |-> id] : s \in egr }
        g1   == Declare(gr, id, "Vpc", {})
    IN  [g1 EXCEPT !.subnets = subs, !.gateways = gws, !.routes = rts]

\* ec2.SubnetSelection(subnet_type=...) resolved against the network.
SelectSubnets(gr, subnet_type) == { s \in gr.subnets : s.subnet_type = subnet_type }

\* ec2.GatewayVpcEndpoint: a route to the endpoint in every subnet's route
\* table (no subnets argument is given), with an empty policy document.
ec2_GatewayVpcEndpoint(gr, id, vpc) ==
    LET g1 == Declare(gr, id, "GatewayVpcEndpoint", {vpc})
    IN  [g1 EXCEPT !.routes = @ \cup
            { [subnet |-> s, target_type |-> "GatewayVpcEndpoint", target |-> id] :
                s \in gr.subnets }]

\* GatewayVpcEndpoint.add_to_policy: the statement must name a principal.
add_to_policy(gr, endpoint, stmt) ==
    LET g1 == Declare(gr, "DynamoDBVpce/Policy", "PolicyStatement", {endpoint})
    IN  [g1 EXCEPT !.endpoint_policy = Append(@, stmt)]

(***************************************************************************)
(* The constructor, statement by statement.                                *)
(***************************************************************************)
\* The statements with the grant and the environment entry moved ahead of
\* the table and the function they use.
StatementsGrantFirst ==
    << "super", "vpc", "vpc_flow_log_group", "add_flow_log", "dynamo_db_endpoint",
       "add_to_policy", "xray_endpoint", "grant_write_data", "add_environment",
       "demo_table", "api_hanlder", "api_log_group", "api",
       "LambdaErrorAlarm", "ApiGateway5xxAlarm", "ApiGateway4xxAlarm",
       "canary_bucket", "canary", "CanaryFailureAlarm", "trail_bucket", "trail" >>

\* The statements of __init__, in program order.
Statements ==
    << "super", "vpc", "vpc_flow_log_group", "add_flow_log", "dynamo_db_endpoint",
       "add_to_policy", "xray_endpoint", "demo_table", "api_hanlder",
       "grant_write_data", "add_environment", "api_log_group", "api",
       "LambdaErrorAlarm", "ApiGateway5xxAlarm", "ApiGateway4xxAlarm",
       "canary_bucket", "canary", "CanaryFailureAlarm", "trail_bucket", "trail" >>

\* Control falls through to the next statement; after the last one the
\* constructor returns.
After(label) ==
    LET i == CHOOSE k \in 1..Len(Statements) : Statements[k] = label
    IN  IF i = Len(Statements) THEN "done" ELSE Statements[i + 1]

\* One statement of run r: guard on the program counter, extend the graph.
Exec(r, label, newGraph) ==
    /\ pc[r] = label
    /\ g' = [g EXCEPT ![r] = newGraph]
    /\ pc' = [pc EXCEPT ![r] = After(label)]
    /\ UNCHANGED <<inputs, lastReq>>

\* No request has gone through a deployed endpoint yet.
NoRequest == [run |-> 0, principal |-> "", action |-> <<>>, allowed |-> FALSE]

Init ==
    /\ pc = [r \in Runs |-> Statements[1]]
    /\ g = [r \in Runs |-> EmptyGraph]
    /\ inputs \in [construct_id : ConstructIds, azs : 1..MaxAzs]
    /\ lastReq = NoRequest

\* super().__init__(scope, construct_id, **kwargs)
SuperInit(r) ==
    Exec(r, "super", [g[r] EXCEPT !.stack = inputs.construct_id])

\* vpc = ec2.Vpc(self, "Ingress", ...)
DeclareVpc(r) ==
    Exec(r, "vpc", ec2_Vpc(g[r], "Ingress", VpcSubnetConfiguration, inputs.azs))

\* vpc_flow_log_group = logs.LogGroup(self, "VpcFlowLogs", ...)
DeclareVpcFlowLogGroup(r) ==
    Exec(r, "vpc_flow_log_group", Declare(g[r], "VpcFlowLogs", "LogGroup", {}))

\* vpc.add_flow_log("FlowLog", destination=..., traffic_type=ALL)
AddFlowLog(r) ==
    Exec(r, "add_flow_log",
         Declare(g[r], "Ingress/FlowLog", "FlowLog", {"Ingress", "VpcFlowLogs"}))

\* dynamo_db_endpoint = ec2.GatewayVpcEndpoint(self, "DynamoDBVpce", ...)
DeclareDynamoDbEndpoint(r) ==
    Exec(r, "dynamo_db_endpoint", ec2_GatewayVpcEndpoint(g[r], "DynamoDBVpce", "Ingress"))

\* dynamo_db_endpoint.add_to_policy(iam.PolicyStatement(...))
AddToPolicy(r) ==
    Exec(r, "add_to_policy", add_to_policy(g[r], "DynamoDBVpce", EndpointPolicyStatement))

\* ec2.InterfaceVpcEndpoint: network interfaces in the selected subnets.
ec2_InterfaceVpcEndpoint(gr, id, vpc, subnet_type) ==
    LET g1 == Declare(gr, id, "InterfaceVpcEndpoint", {vpc})
    IN  [g1 EXCEPT !.interface_enis = @ \cup
            { [endpoint |-> id, subnet |-> s] : s \in SelectSubnets(gr, subnet_type) }]

\* ec2.InterfaceVpcEndpoint(self, "XRayVpce", ...)
DeclareXRayEndpoint(r) ==
    Exec(r, "xray_endpoint",
         ec2_InterfaceVpcEndpoint(g[r], "XRayVpce", "Ingress", "PRIVATE_ISOLATED"))

\* The table declared under an identifier made unique per synthesis.
DeclareTablePerRun(r) ==
    Exec(r, "demo_table",
         Declare(g[r], IF r = 1 THEN TABLE_NAME ELSE "demo_table_2", "Table", {}))

\* demo_table = dynamodb_.Table(self, TABLE_NAME, ...)
DeclareTable(r) ==
    Exec(r, "demo_table", Declare(g[r], TABLE_NAME, "Table", {}))

\* vpc_subnets of the function.
FunctionSubnetType == "PRIVATE_ISOLATED"

\* lambda_.Function in a VPC: placed in the selected subnets; tracing=ACTIVE
\* lets the function's role write to X-Ray.
lambda_Function(gr, id, vpc, subnet_type) ==
    LET g1 == Declare(gr, id, "Function", {vpc})
    IN  [g1 EXCEPT !.fn_subnet_type = subnet_type,
                   !.fn_subnets = SelectSubnets(gr, subnet_type),
                   !.grants = @ \cup
                       { [grantee |-> id, resource |-> "*",
                          actions |-> {xray_PutTraceSegments, xray_PutTelemetryRecords}] }]

\* api_hanlder = lambda_.Function(self, "ApiHandler", ...).  The subnet
\* selection raises when the network has no subnet of the selected type,
\* and the constructor is abandoned.
DeclareFunction(r) ==
    /\ pc[r] = "api_hanlder"
    /\ IF SelectSubnets(g[r], FunctionSubnetType) = {}
       THEN /\ pc' = [pc EXCEPT ![r] = "error"]
            /\ UNCHANGED g
       ELSE /\ pc' = [pc EXCEPT ![r] = After("api_hanlder")]
            /\ g' = [g EXCEPT ![r] =
                       lambda_Function(g[r], "ApiHandler", "Ingress", FunctionSubnetType)]
    /\ UNCHANGED <<inputs, lastReq>>

\* Table.grant_read_write_data(grantee): read and write data actions.
grant_read_write_data(gr, table, grantee) ==
    LET g1 == Declare(gr, "ApiHandler/WriteGrant", "Grant", {table, grantee})
    IN  [g1 EXCEPT !.grants = @ \cup
            { [grantee |-> grantee, resource |-> table,
               actions |-> WriteDataActions \cup ReadDataActions] }]

\* Table.grant_write_data(grantee): one statement on the grantee's role.
grant_write_data(gr, table, grantee) ==
    LET g1 == Declare(gr, "ApiHandler/WriteGrant", "Grant", {table, grantee})
    IN  [g1 EXCEPT !.grants = @ \cup
            { [grantee |-> grantee, resource |-> table, actions |-> WriteDataActions] }]

\* demo_table.grant_write_data(api_hanlder)
GrantWriteData(r) ==
    Exec(r, "grant_write_data", grant_write_data(g[r], TABLE_NAME, "ApiHandler"))

\* api_hanlder.add_environment("TABLE_NAME", demo_table.table_name)
AddEnvironment(r) ==
    Exec(r, "add_environment",
         LET g1 == Declare(g[r], "ApiHandler/Environment", "Environment",
                           {"ApiHandler", TABLE_NAME})
         IN  [g1 EXCEPT !.environment = @ \cup {<<"TABLE_NAME", TABLE_NAME>>}])

\* api_log_group = logs.LogGroup(self, "ApiGatewayAccessLogs", ...)
DeclareApiLogGroup(r) ==
    Exec(r, "api_log_group", Declare(g[r], "ApiGatewayAccessLogs", "LogGroup", {}))

\* The keyword arguments with the user field switched off.
AccessLogFlagsNoUser ==
    [ caller |-> TRUE, http_method |-> TRUE, ip |-> TRUE, protocol |-> TRUE,
      request_time |-> TRUE, resource_path |-> TRUE, response_length |-> TRUE,
      status |-> TRUE, user |-> FALSE ]

\* The keyword arguments of json_with_standard_fields.
AccessLogFlags ==
    [ caller |-> TRUE, http_method |-> TRUE, ip |-> TRUE, protocol |-> TRUE,
      request_time |-> TRUE, resource_path |-> TRUE, response_length |-> TRUE,
      status |-> TRUE, user |-> TRUE ]

\* AccessLogFormat.json_with_standard_fields: the keys of the JSON log line.
\* requestId is always present; every other key only when its flag is set.
json_with_standard_fields(flags) ==
    LET key == [ caller |-> "caller", http_method |-> "httpMethod", ip |-> "ip",
                 protocol |-> "protocol", request_time |-> "requestTime",
                 resource_path |-> "resourcePath",
                 response_length |-> "responseLength",
                 status |-> "status", user |-> "user" ]
    IN  {"requestId"} \cup { key[f] : f \in { x \in DOMAIN flags : flags[x] } }

\* apigw_.LambdaRestApi: every request is integrated with the handler, which
\* API Gateway is permitted to invoke; the stage logs in the given format.
apigw_LambdaRestApi(gr, id, handler, log_group, format) ==
    LET g1 == Declare(gr, id, "LambdaRestApi", {handler, log_group})
    IN  [g1 EXCEPT !.api_handler = handler,
                   !.access_log_format = format,
                   !.grants = @ \cup
                       { [grantee |-> "apigateway.amazonaws.com", resource |-> handler,
                          actions |-> {lambda_InvokeFunction}] }]

\* api = apigw_.LambdaRestApi(self, "Endpoint", handler=api_hanlder, ...)
DeclareApi(r) ==
    Exec(r, "api",
         apigw_LambdaRestApi(g[r], "Endpoint", "ApiHandler", "ApiGatewayAccessLogs",
                             json_with_standard_fields(AccessLogFlags)))

\* Metrics: each carries the construct whose dimension it is taken from.
metric_errors(fn) ==
    [namespace |-> "AWS/Lambda", metric_name |-> "Errors", owner |-> fn]

metric_server_error(api) ==
    [namespace |-> "AWS/ApiGateway", metric_name |-> "5XXError", owner |-> api]

metric_client_error(api) ==
    [namespace |-> "AWS/ApiGateway", metric_name |-> "4XXError", owner |-> api]

\* The failure metric built from a hard-coded canary name.
metric_failed_by_name(canary) ==
    [namespace |-> "CloudWatchSynthetics", metric_name |-> "Failed", owner |-> "api-canary"]

metric_failed(canary) ==
    [namespace |-> "CloudWatchSynthetics", metric_name |-> "Failed", owner |-> canary]

\* cloudwatch.Alarm(self, id, metric=..., threshold=..., evaluation_periods=...)
cloudwatch_Alarm(gr, id, metric, threshold, evaluation_periods) ==
    LET g1 == Declare(gr, id, "Alarm", {metric.owner})
    IN  [g1 EXCEPT !.alarms = @ \cup
            { [id |-> id, metric |-> metric, threshold |-> threshold,
               evaluation_periods |-> evaluation_periods] }]

DeclareLambdaErrorAlarm(r) ==
    Exec(r, "LambdaErrorAlarm",
         cloudwatch_Alarm(g[r], "LambdaErrorAlarm", metric_errors("ApiHandler"), 1, 1))

DeclareApiGateway5xxAlarm(r) ==
    Exec(r, "ApiGateway5xxAlarm",
         cloudwatch_Alarm(g[r], "ApiGateway5xxAlarm", metric_server_error("Endpoint"), 5, 2))

DeclareApiGateway4xxAlarm(r) ==
    Exec(r, "ApiGateway4xxAlarm",
         cloudwatch_Alarm(g[r], "ApiGateway4xxAlarm", metric_client_error("Endpoint"), 10, 2))

\* canary_bucket = s3.Bucket(self, "CanaryArtifactsBucket", ...)
DeclareCanaryBucket(r) ==
    Exec(r, "canary_bucket", Declare(g[r], "CanaryArtifactsBucket", "Bucket", {}))

\* synthetics.Canary: the inline script embeds api.url; the canary's role
\* may write artifacts to the bucket.
synthetics_Canary(gr, id, api, bucket) ==
    LET g1 == Declare(gr, id, "Canary", {api, bucket})
    IN  [g1 EXCEPT !.canary_url = api,
                   !.grants = @ \cup
                       { [grantee |-> id, resource |-> bucket, actions |-> {s3_PutObject}] }]

\* canary = synthetics.Canary(self, "ApiCanary", ...)
DeclareCanary(r) ==
    Exec(r, "canary", synthetics_Canary(g[r], "ApiCanary", "Endpoint", "CanaryArtifactsBucket"))

DeclareCanaryFailureAlarm(r) ==
    Exec(r, "CanaryFailureAlarm",
         cloudwatch_Alarm(g[r], "CanaryFailureAlarm", metric_failed("ApiCanary"), 1, 1))

\* trail_bucket = s3.Bucket(self, "CloudTrailBucket", ...)
DeclareTrailBucket(r) ==
    Exec(r, "trail_bucket", Declare(g[r], "CloudTrailBucket", "Bucket", {}))

\* cloudtrail.Trail(self, "CloudTrail", bucket=trail_bucket, ...): the
\* CloudTrail service may write to the bucket.
DeclareTrail(r) ==
    Exec(r, "trail",
         LET g1 == Declare(g[r], "CloudTrail", "Trail", {"CloudTrailBucket"})
         IN  [g1 EXCEPT !.grants = @ \cup
                 { [grantee |-> "cloudtrail.amazonaws.com",
                    resource |-> "CloudTrailBucket", actions |-> {s3_PutObject}] }])

(***************************************************************************)
(* Requests through the deployed DynamoDB gateway endpoint.                *)
(***************************************************************************)
\* Principals that send requests from inside the network.
Principals == {"ApiHandler", "OtherRole"}

\* Action names a request can carry.
RequestActions ==
    { dynamodb_DescribeStream, dynamodb_DescribeTable, dynamodb_Query,
      dynamodb_Scan, dynamodb_CreateTable, dynamodb_PutItem,
      dynamodb_BatchWriteItem, dynamodb_UpdateItem, dynamodb_DeleteItem,
      dynamodb_GetItem, dynamodb_BatchGetItem, dynamodb_GetRecords,
      dynamodb_GetShardIterator, dynamodb_ConditionCheckItem,
      dynamodb_DeleteTable, dynamodb_UpdateTable, dynamodb_ListTables,
      dynamodb_ListStreams, dynamodb_TagResource,
      dynamodb_RestoreTableFromBackup, dynamodb_ExportTableToPointInTime,
      dynamodb_PartiQLSelect, s3_GetObject, s3_PutObject, logs_PutLogEvents }

\* A request to the table service leaves the network through the endpoint of
\* a completed run and is decided by the endpoint policy.
EndpointRequest(r, principal, action) ==
    /\ pc[r] = "done"
    /\ lastReq' = [ run |-> r, principal |-> principal, action |-> action,
                    allowed |-> PolicyAllows(g[r].endpoint_policy, principal,
                                             action, TABLE_NAME) ]
    /\ UNCHANGED <<pc, g, inputs>>

Construct(r) ==
    \/ SuperInit(r)
    \/ DeclareVpc(r)
    \/ DeclareVpcFlowLogGroup(r)
    \/ AddFlowLog(r)
    \/ DeclareDynamoDbEndpoint(r)
    \/ AddToPolicy(r)
    \/ DeclareXRayEndpoint(r)
    \/ DeclareTable(r)
    \/ DeclareFunction(r)
    \/ GrantWriteData(r)
    \/ AddEnvironment(r)
    \/ DeclareApiLogGroup(r)
    \/ DeclareApi(r)
    \/ DeclareLambdaErrorAlarm(r)
    \/ DeclareApiGateway5xxAlarm(r)
    \/ DeclareApiGateway4xxAlarm(r)
    \/ DeclareCanaryBucket(r)
    \/ DeclareCanary(r)
    \/ DeclareCanaryFailureAlarm(r)
    \/ DeclareTrailBucket(r)
    \/ DeclareTrail(r)

\* Synthesis and re-synthesis of the declaration.
Next == \E r \in Runs : Construct(r)

Spec == Init /\ [][Next]_vars

\* The run whose synthesized template is deployed.
Deployed == 1

\* One synthesis, then traffic through the endpoint it declared.
NextDeployed ==
    \/ Construct(Deployed)
    \/ \E p \in Principals, a \in RequestActions : EndpointRequest(Deployed, p, a)

SpecDeployed == Init /\ [][NextDeployed]_vars

(***************************************************************************)
(* Vocabulary of the properties.                                           *)
(***************************************************************************)
UpperCase ==
    { "A", "B", "C", "D", "E", "F", "G", "H", "I", "J", "K", "L", "M",
      "N", "O", "P", "Q", "R", "S", "T", "U", "V", "W", "X", "Y", "Z" }

RECURSIVE ServiceOf(_)
\* The service prefix of an action name: the characters before ":".
ServiceOf(s) ==
    IF s = <<>> \/ Head(s) = ":" THEN <<>> ELSE <<Head(s)>> \o ServiceOf(Tail(s))

RECURSIVE NameOf(_)
\* The operation name of an action name: the characters after ":".
NameOf(s) ==
    IF s = <<>> THEN <<>> ELSE IF Head(s) = ":" THEN Tail(s) ELSE NameOf(Tail(s))

RECURSIVE LowerRun(_)
LowerRun(s) ==
    IF s = <<>> \/ Head(s) \in UpperCase THEN <<>> ELSE <<Head(s)>> \o LowerRun(Tail(s))

\* The leading word of the operation name: "Get" of dynamodb:GetItem.
Verb(a) ==
    LET n == NameOf(a) IN IF n = <<>> THEN <<>> ELSE <<Head(n)>> \o LowerRun(Tail(n))

DynamoDbService == <<"d", "y", "n", "a", "m", "o", "d", "b">>

\* read (Get), describe, query, scan, create, update, delete and put.
AllowListVerbs ==
    { <<"G", "e", "t">>, <<"D", "e", "s", "c", "r", "i", "b", "e">>,
      <<"Q", "u", "e", "r", "y">>, <<"S", "c", "a", "n">>,
      <<"C", "r", "e", "a", "t", "e">>, <<"U", "p", "d", "a", "t", "e">>,
      <<"D", "e", "l", "e", "t", "e">>, <<"P", "u", "t">> }

InAllowList(a) == ServiceOf(a) = DynamoDbService /\ Verb(a) \in AllowListVerbs

\* listing and describing.
ListDescribeVerbs ==
    { <<"L", "i", "s", "t">>, <<"D", "e", "s", "c", "r", "i", "b", "e">> }

IsDeclared(gr, id) == id \in DeclaredIds(gr)

TypeOf(gr, id) ==
    LET i == CHOOSE k \in 1..Len(gr.declared) : gr.declared[k].id = id
    IN  gr.declared[i].type

\* Position of a declaration in the sequence (0 when absent).
Pos(gr, id) ==
    IF IsDeclared(gr, id)
    THEN CHOOSE k \in 1..Len(gr.declared) : gr.declared[k].id = id
    ELSE 0

\* Table actions a grantee holds on the table through the declared grants.
TableActionsOf(gr, grantee) ==
    { a \in RequestActions :
        /\ ServiceOf(a) = DynamoDbService
        /\ \E x \in gr.grants :
              /\ x.grantee = grantee
              /\ ResourceMatches(x.resource, TABLE_NAME)
              /\ \E ap \in x.actions : Glob(ap, a) }

Grantees(gr) == { x.grantee : x \in gr.grants }

(***************************************************************************)
(* Properties.                                                             *)
(***************************************************************************)

\* C1: whatever the principal, a request that the DynamoDB endpoint policy
\* lets through carries a DynamoDB read (Get), describe, query, scan, create,
\* update, delete or put action; every other action is refused.
C1_EndpointAllowList ==
    (lastReq.run # 0 /\ lastReq.allowed) => InAllowList(lastReq.action)

\* C1 witness: a principal other than the function gets a put through, so
\* the statement applies to any principal and some request is allowed.
C1_Witness ==
    /\ lastReq.run # 0
    /\ lastReq.allowed
    /\ lastReq.principal = "OtherRole"
    /\ lastReq.action = dynamodb_PutItem

\* C2: at every point of the declaration sequence the function's table
\* actions stay within the write grant (no read data action), nobody else
\* holds a table action, and once the constructor has returned the function
\* holds exactly one grant on the table, which lets it write.
C2_WriteGrantOnly ==
    \A r \in Runs :
        /\ TableActionsOf(g[r], "ApiHandler") \cap ReadDataActions = {}
        /\ TableActionsOf(g[r], "ApiHandler") \subseteq
              { dynamodb_PutItem, dynamodb_UpdateItem, dynamodb_DeleteItem,
                dynamodb_BatchWriteItem, dynamodb_DescribeTable }
        /\ \A x \in g[r].grants : x.resource = TABLE_NAME => x.grantee = "ApiHandler"
        /\ \A p \in Grantees(g[r]) \ {"ApiHandler"} : TableActionsOf(g[r], p) = {}
        /\ pc[r] = "done" =>
              /\ Cardinality({ x \in g[r].grants : x.resource = TABLE_NAME }) = 1
              /\ { dynamodb_PutItem, dynamodb_UpdateItem, dynamodb_DeleteItem }
                    \subseteq TableActionsOf(g[r], "ApiHandler")

\* C2 witness: a finished run in which the function can put items.
C2_Witness ==
    \E r \in Runs :
        /\ pc[r] = "done"
        /\ dynamodb_PutItem \in TableActionsOf(g[r], "ApiHandler")

\* C3: the network has only isolated subnets and no internet or NAT gateway,
\* the function selects the isolated subnet type, and every route out of a
\* subnet the function can be placed in leads to a declared gateway endpoint.
C3_IsolatedPlacement ==
    \A r \in Runs :
        /\ \A s \in g[r].subnets : s.subnet_type = "PRIVATE_ISOLATED"
        /\ g[r].gateways = {}
        /\ IsDeclared(g[r], "ApiHandler") =>
              /\ g[r].fn_subnet_type = "PRIVATE_ISOLATED"
              /\ g[r].fn_subnets # {}
              /\ g[r].fn_subnets \subseteq g[r].subnets
        /\ \A rt \in g[r].routes :
              /\ rt.target_type = "GatewayVpcEndpoint"
              /\ IsDeclared(g[r], rt.target)
              /\ TypeOf(g[r], rt.target) = "GatewayVpcEndpoint"

\* C3 witness: a finished run whose function sits in two or more isolated
\* subnets, each with a route to the DynamoDB endpoint and an X-Ray interface.
C3_Witness ==
    \E r \in Runs :
        /\ pc[r] = "done"
        /\ Cardinality(g[r].fn_subnets) >= 2
        /\ \A s \in g[r].fn_subnets :
              /\ [subnet |-> s, target_type |-> "GatewayVpcEndpoint",
                  target |-> "DynamoDBVpce"] \in g[r].routes
              /\ [endpoint |-> "XRayVpce", subnet |-> s] \in g[r].interface_enis

\* C4: every alarm's metric belongs to a function, REST gateway or canary
\* that is declared in the same graph, and a finished run has the four alarms.
C4_NoDanglingMetric ==
    \A r \in Runs :
        /\ \A al \in g[r].alarms :
              /\ IsDeclared(g[r], al.metric.owner)
              /\ TypeOf(g[r], al.metric.owner) \in {"Function", "LambdaRestApi", "Canary"}
        /\ pc[r] = "done" =>
              { al.id : al \in g[r].alarms } =
                 { "LambdaErrorAlarm", "ApiGateway5xxAlarm",
                   "ApiGateway4xxAlarm", "CanaryFailureAlarm" }

\* C4 witness: a finished run with the canary alarm watching the canary.
C4_Witness ==
    \E r \in Runs :
        /\ pc[r] = "done"
        /\ \E al \in g[r].alarms :
              al.id = "CanaryFailureAlarm" /\ al.metric.owner = "ApiCanary"

C7_AccessLogFields ==
    \A r \in Runs :
        IsDeclared(g[r], "Endpoint") =>
            { "caller", "httpMethod", "ip", "protocol", "requestTime",
              "resourcePath", "responseLength", "status", "user" }
                \subseteq g[r].access_log_format

\* C7 witness: a run that has declared the gateway with a log format.
C7_Witness ==
    \E r \in Runs :
        IsDeclared(g[r], "Endpoint") /\ "requestId" \in g[r].access_log_format

\* C8: the endpoint policy lets through only listing and describing
\* actions.
C8_ListDescribeOnly ==
    (lastReq.run # 0 /\ lastReq.allowed) => Verb(lastReq.action) \in ListDescribeVerbs

\* C9: in a finished run, every action a grant gives on the table passes
\* the DynamoDB endpoint policy for its grantee.
C9_GrantPassesEndpoint ==
    \A r \in Runs :
        pc[r] = "done" =>
            \A x \in g[r].grants :
                x.resource = TABLE_NAME =>
                    \A a \in x.actions :
                        PolicyAllows(g[r].endpoint_policy, x.grantee, a, TABLE_NAME)

\* C10: every declaration refers only to declarations made before it, and
\* the network precedes its flow log and endpoints, the table and function
\* precede the grant and the environment entry, the function and log group
\* precede the gateway, the gateway precedes its alarms and the canary, and
\* each bucket precedes the canary or trail that uses it.
Before(gr, a, b) == IsDeclared(gr, b) => (0 < Pos(gr, a) /\ Pos(gr, a) < Pos(gr, b))

C10_DeclaredBeforeUse ==
    \A r \in Runs :
        /\ pc[r] # "error"
        /\ \A i \in 1..Len(g[r].declared) :
              g[r].declared[i].refs \subseteq { g[r].declared[j].id : j \in 1..(i - 1) }
        /\ Before(g[r], "Ingress", "Ingress/FlowLog")
        /\ Before(g[r], "VpcFlowLogs", "Ingress/FlowLog")
        /\ Before(g[r], "Ingress", "DynamoDBVpce")
        /\ Before(g[r], "Ingress", "XRayVpce")
        /\ Before(g[r], TABLE_NAME, "ApiHandler/WriteGrant")
        /\ Before(g[r], "ApiHandler", "ApiHandler/WriteGrant")
        /\ Before(g[r], TABLE_NAME, "ApiHandler/Environment")
        /\ Before(g[r], "ApiHandler", "ApiHandler/Environment")
        /\ Before(g[r], "ApiHandler", "Endpoint")
        /\ Before(g[r], "ApiGatewayAccessLogs", "Endpoint")
        /\ Before(g[r], "Endpoint", "ApiGateway5xxAlarm")
        /\ Before(g[r], "Endpoint", "ApiGateway4xxAlarm")
        /\ Before(g[r], "Endpoint", "ApiCanary")
        /\ Before(g[r], "CanaryArtifactsBucket", "ApiCanary")
        /\ Before(g[r], "CloudTrailBucket", "CloudTrail")

\* C10 witness: a run that has executed the whole sequence.
C10_Witness ==
    \E r \in Runs :
        /\ pc[r] = "done"
        /\ Len(g[r].declared) = 20
        /\ g[r].canary_url = "Endpoint"
        /\ <<"TABLE_NAME", TABLE_NAME>> \in g[r].environment

====
